---- MODULE Spec2Model ----
(***************************************************************************)
(* Model of main.py: the trail sampler (parse_gpx_points_every_n_km and    *)
(* get_distance_markers), the locker fetch loop, the dedup loop and the    *)
(* map renderer.                                                           *)
(*                                                                         *)
(* Distances are fixed-point: one unit is 1/UnitsPerKm km.  A track point  *)
(* is <<latitude, longitude>> and lies on the equator (latitude 0), its    *)
(* longitude given as the arc length from the prime meridian in units, so  *)
(* that the geodesic distance of two points is the absolute difference of  *)
(* their longitudes.  A point object of the parsed track is referred to by *)
(* its index in all_points.                                                *)
(***************************************************************************)
EXTENDS Integers, Sequences, FiniteSets, TLC

\* ---- bounds of the model
UnitsPerKm == 4
MaxPos == 4
MaxTrackLen == 4
MaxInterval == 4
MaxItems == 1
MaxMainTrackLen == 3

\* ---- configuration (main.py lines 14-17)
TRAIL_CHUNK == 500
SEARCH_RADIUS_KM == 2
DISTANCE_MARKERS_EACH == 10
REQUEST_DELAY_MS == 100

VARIABLES
    all_points,        \* the flattened points of the track file
    \* -- one call of each sampling function, loop by loop (SamplerSpec)
    interval_km,       \* the interval argument, in units
    spc,               \* position in the sampler run
    cursor,            \* index in all_points of the next point of the loop
    coarse,            \* locals of parse_gpx_points_every_n_km
    coarse_result,     \* its return value
    mark,              \* locals of get_distance_markers
    marker_result,     \* its return value
    \* -- one run of main (Spec)
    pc,                \* position in main
    token,
    route_points,
    index,             \* enumerate index of the fetch loop, 1-based
    all_lockers,
    seen,
    unique_lockers,
    distance_markers,
    map_obj,
    saved,             \* content of the output file, NoMap while not written
    exception,         \* the exception main ended with, "none" otherwise
    log                \* requests sent and delays taken, in order

samplerVars == <<interval_km, spc, cursor, coarse, coarse_result, mark, marker_result>>
mainVars == <<pc, token, route_points, index, all_lockers, seen, unique_lockers,
              distance_markers, map_obj, saved, exception, log>>
vars == <<all_points, samplerVars, mainVars>>

\* ---- helpers
Abs(x) == IF x < 0 THEN -x ELSE x

Range(s) == {s[k] : k \in 1..Len(s)}

SeqsUpTo(S, n) == UNION {[1..m -> S] : m \in 0..n}

\* geopy's geodesic(a, b), for two points of the equator, in units
geodesic(a, b) == Abs(a[2] - b[2])

\* Python's round(x) of a float x >= 0 given in units: the nearest integer
\* number of km, a tie going to the even one
RoundHalfEven(d) ==
    LET q == d \div UnitsPerKm
        r == d % UnitsPerKm
    IN  IF 2 * r < UnitsPerKm THEN q
        ELSE IF 2 * r > UnitsPerKm THEN q + 1
        ELSE IF q % 2 = 0 THEN q ELSE q + 1

\* ---- parse_gpx_points_every_n_km
\* faulty variant: the first point is not taken as the seed of the sample
CoarseInitNoSeed ==
    [sampled_points |-> <<>>, last_added |-> 1, distance_accumulator |-> 0]

CoarseInit ==
    [sampled_points |-> <<1>>, last_added |-> 1, distance_accumulator |-> 0]

CoarseIdle ==
    [sampled_points |-> <<>>, last_added |-> 0, distance_accumulator |-> 0]

\* faulty variant: a point is accepted only beyond the interval, not at it
CoarseLoopBodyStrict(st, points, interval, k) ==
    LET segment_distance == geodesic(points[st.last_added], points[k])
        acc == st.distance_accumulator + segment_distance
    IN  IF acc > interval
        THEN [sampled_points |-> Append(st.sampled_points, k),
              last_added |-> k,
              distance_accumulator |-> 0]
        ELSE [st EXCEPT !.distance_accumulator = acc]

\* the body of the loop, for the point of index k
CoarseLoopBody(st, points, interval, k) ==
    LET segment_distance == geodesic(points[st.last_added], points[k])
        acc == st.distance_accumulator + segment_distance
    IN  IF acc >= interval
        THEN [sampled_points |-> Append(st.sampled_points, k),
              last_added |-> k,
              distance_accumulator |-> 0]
        ELSE [st EXCEPT !.distance_accumulator = acc]

\* the locals after the loop has handled the points 2..k
RECURSIVE CoarseLoop(_, _, _)
CoarseLoop(points, interval, k) ==
    IF k <= 1 THEN CoarseInit
    ELSE CoarseLoopBody(CoarseLoop(points, interval, k - 1), points, interval, k)

CoarseReturnValue(st, points) ==
    [j \in 1..Len(st.sampled_points) |-> points[st.sampled_points[j]]]

parse_gpx_points_every_n_km(points, interval) ==
    IF points = <<>> THEN <<>>
    ELSE CoarseReturnValue(CoarseLoop(points, interval, Len(points)), points)

\* ---- get_distance_markers
MarkerInit == [markers |-> <<>>, total_distance |-> 0, last_point |-> 1]

\* faulty variant: the distance is compared with the first marker, not the last
MarkerAcceptsFromFirst(markers, total, interval) ==
    \/ Len(markers) = 0
    \/ total - markers[1][3] * UnitsPerKm >= interval

MarkerAccepts(markers, total, interval) ==
    \/ Len(markers) = 0
    \/ total - markers[Len(markers)][3] * UnitsPerKm >= interval

\* the body of the loop, for the point of index k
MarkerLoopBody(st, points, interval, k) ==
    LET segment_distance == geodesic(points[st.last_point], points[k])
        total == st.total_distance + segment_distance
    IN  [markers |-> IF MarkerAccepts(st.markers, total, interval)
                     THEN Append(st.markers,
                                 <<points[k][1], points[k][2], RoundHalfEven(total)>>)
                     ELSE st.markers,
         total_distance |-> total,
         last_point |-> k]

\* the locals after the loop has handled the points 2..k
RECURSIVE MarkerLoop(_, _, _)
MarkerLoop(points, interval, k) ==
    IF k <= 1 THEN MarkerInit
    ELSE MarkerLoopBody(MarkerLoop(points, interval, k - 1), points, interval, k)

get_distance_markers(points, interval) ==
    IF points = <<>> THEN <<>>
    ELSE MarkerLoop(points, interval, Len(points)).markers

\* ---- one call of each sampling function
Positions == 0..MaxPos
Point(x) == <<0, x>>
Tracks == SeqsUpTo({Point(x) : x \in Positions}, MaxTrackLen)
Intervals == 1..MaxInterval

NoMap == [built |-> FALSE]

MainIdle ==
    /\ pc = "idle" /\ token = "" /\ route_points = <<>> /\ index = 0
    /\ all_lockers = <<>> /\ seen = {} /\ unique_lockers = <<>>
    /\ distance_markers = <<>> /\ map_obj = NoMap /\ saved = NoMap
    /\ exception = "none" /\ log = <<>>

SamplerInit ==
    /\ all_points \in Tracks
    /\ interval_km \in Intervals
    /\ spc = "call_coarse"
    /\ cursor = 0
    /\ coarse = CoarseIdle
    /\ coarse_result = <<>>
    /\ mark = MarkerInit
    /\ marker_result = <<>>
    /\ MainIdle

CoarseEnter ==
    /\ spc = "call_coarse"
    /\ IF all_points = <<>>
       THEN /\ coarse_result' = <<>>
            /\ spc' = "call_marker"
            /\ UNCHANGED <<coarse, cursor>>
       ELSE /\ coarse' = CoarseInit
            /\ cursor' = 2
            /\ spc' = "coarse_loop"
            /\ UNCHANGED coarse_result
    /\ UNCHANGED <<all_points, interval_km, mark, marker_result, mainVars>>

CoarseIterate ==
    /\ spc = "coarse_loop"
    /\ cursor <= Len(all_points)
    /\ coarse' = CoarseLoopBody(coarse, all_points, interval_km, cursor)
    /\ cursor' = cursor + 1
    /\ UNCHANGED <<all_points, interval_km, spc, coarse_result, mark, marker_result,
                   mainVars>>

CoarseReturn ==
    /\ spc = "coarse_loop"
    /\ cursor > Len(all_points)
    /\ coarse_result' = CoarseReturnValue(coarse, all_points)
    /\ spc' = "call_marker"
    /\ UNCHANGED <<all_points, interval_km, cursor, coarse, mark, marker_result,
                   mainVars>>

MarkerEnter ==
    /\ spc = "call_marker"
    /\ IF all_points = <<>>
       THEN /\ marker_result' = <<>>
            /\ spc' = "done"
            /\ UNCHANGED <<mark, cursor>>
       ELSE /\ mark' = MarkerInit
            /\ cursor' = 2
            /\ spc' = "marker_loop"
            /\ UNCHANGED marker_result
    /\ UNCHANGED <<all_points, interval_km, coarse, coarse_result, mainVars>>

MarkerIterate ==
    /\ spc = "marker_loop"
    /\ cursor <= Len(all_points)
    /\ mark' = MarkerLoopBody(mark, all_points, interval_km, cursor)
    /\ cursor' = cursor + 1
    /\ UNCHANGED <<all_points, interval_km, spc, coarse, coarse_result, marker_result,
                   mainVars>>

MarkerReturn ==
    /\ spc = "marker_loop"
    /\ cursor > Len(all_points)
    /\ marker_result' = mark.markers
    /\ spc' = "done"
    /\ UNCHANGED <<all_points, interval_km, cursor, coarse, coarse_result, mark,
                   mainVars>>

SamplerNext ==
    \/ CoarseEnter
    \/ CoarseIterate
    \/ CoarseReturn
    \/ MarkerEnter
    \/ MarkerIterate
    \/ MarkerReturn

SamplerSpec == SamplerInit /\ [][SamplerNext]_vars

\* ---- get_nearby_parcel_lockers
\* the records the locator API can return
LockerRecords ==
    { [name |-> "Locker-A", location |-> [latitude |-> 1, longitude |-> 1]],
      [name |-> "Locker-A", location |-> [latitude |-> 2, longitude |-> 2]],
      [name |-> "Locker-B", location |-> [latitude |-> 1, longitude |-> 1],
       location_description |-> "at the station"] }

ItemLists == SeqsUpTo(LockerRecords, MaxItems)

\* what requests.get can do: answer 200 with a body holding items, answer
\* another status, or raise a RequestException
Responses ==
    {[raises |-> FALSE, status_code |-> 200, items |-> its] : its \in ItemLists}
        \cup {[raises |-> FALSE, status_code |-> 500, items |-> <<>>],
              [raises |-> TRUE, status_code |-> 0, items |-> <<>>]}

\* the value returned: the parsed body (a dict) on 200, the list [] otherwise
get_nearby_parcel_lockers(response) ==
    IF ~response.raises /\ response.status_code = 200
    THEN [type |-> "dict", items |-> response.items]
    ELSE [type |-> "list", items |-> <<>>]

Request(lat, lon, radius_km, tok, response) ==
    [ev |-> "GET",
     relative_point |-> <<lat, lon>>,
     max_distance |-> radius_km * 1000,
     authorization |-> tok,
     status_code |-> response.status_code,
     raised |-> response.raises,
     returned |-> get_nearby_parcel_lockers(response).items]

Delay == [ev |-> "sleep", ms |-> REQUEST_DELAY_MS]

\* ---- the dedup loop of main
DedupInit == [seen |-> {}, unique_lockers |-> <<>>]

\* faulty variant: the name of a kept record is not added to the seen names
DedupLoopBodyNoSeenAdd(st, locker) ==
    IF locker.name \notin st.seen
    THEN [seen |-> st.seen,
          unique_lockers |-> Append(st.unique_lockers, locker)]
    ELSE st

DedupLoopBody(st, locker) ==
    IF locker.name \notin st.seen
    THEN [seen |-> st.seen \cup {locker.name},
          unique_lockers |-> Append(st.unique_lockers, locker)]
    ELSE st

RECURSIVE DedupLoop(_, _)
DedupLoop(lockers, k) ==
    IF k = 0 THEN DedupInit
    ELSE DedupLoopBody(DedupLoop(lockers, k - 1), lockers[k])

\* ---- create_map_with_lockers
LocationDescription(locker) ==
    IF "location_description" \in DOMAIN locker
    THEN locker.location_description ELSE ""

LockerPin(locker) ==
    [location |-> <<locker.location.latitude, locker.location.longitude>>,
     popup |-> <<locker.name, LocationDescription(locker)>>]

DistanceLabel(m) == [location |-> <<m[1], m[2]>>, km |-> m[3]]

\* faulty variant: the label loop skips the first distance marker
create_map_skipping_first_label(route, lockers, dmarkers) ==
    [built |-> TRUE,
     location |-> route[(Len(route) \div 2) + 1],
     polyline |-> route,
     pins |-> [j \in 1..Len(lockers) |-> LockerPin(lockers[j])],
     labels |-> [j \in 1..(Len(dmarkers) - 1) |-> DistanceLabel(dmarkers[j + 1])]]

\* the map built for a non-empty route (an empty one raises IndexError)
create_map_with_lockers(route, lockers, dmarkers) ==
    [built |-> TRUE,
     location |-> route[(Len(route) \div 2) + 1],
     polyline |-> route,
     pins |-> [j \in 1..Len(lockers) |-> LockerPin(lockers[j])],
     labels |-> [j \in 1..Len(dmarkers) |-> DistanceLabel(dmarkers[j])]]

\* ---- main
MainPositions == {0, DISTANCE_MARKERS_EACH * UnitsPerKm + 1, TRAIL_CHUNK * UnitsPerKm}
MainTracks == SeqsUpTo({Point(x) : x \in MainPositions}, MaxMainTrackLen)

Init ==
    /\ all_points \in MainTracks
    /\ interval_km = 0 /\ spc = "idle" /\ cursor = 0
    /\ coarse = CoarseIdle /\ coarse_result = <<>>
    /\ mark = MarkerInit /\ marker_result = <<>>
    /\ pc = "load_token"
    /\ token = ""
    /\ route_points = <<>>
    /\ index = 0
    /\ all_lockers = <<>>
    /\ seen = {}
    /\ unique_lockers = <<>>
    /\ distance_markers = <<>>
    /\ map_obj = NoMap
    /\ saved = NoMap
    /\ exception = "none"
    /\ log = <<>>

LoadToken ==
    /\ pc = "load_token"
    /\ token' = "secret"
    /\ pc' = "parse"
    /\ UNCHANGED <<all_points, samplerVars, route_points, index, all_lockers, seen,
                   unique_lockers, distance_markers, map_obj, saved, exception, log>>

ParseRoute ==
    /\ pc = "parse"
    /\ route_points' = parse_gpx_points_every_n_km(all_points, TRAIL_CHUNK * UnitsPerKm)
    /\ all_lockers' = <<>>
    /\ index' = 1
    /\ pc' = "fetch"
    /\ UNCHANGED <<all_points, samplerVars, token, seen, unique_lockers,
                   distance_markers, map_obj, saved, exception, log>>

\* faulty variant: the loop stops one point early
FetchLoopDoneEarly == index >= Len(route_points)

\* the for loop over route_points has no point left
FetchLoopDone == index > Len(route_points)

\* one request of the fetch loop and the use of its result
Fetch(response) ==
    /\ pc = "fetch"
    /\ ~FetchLoopDone
    /\ LET lat == route_points[index][1]
           lon == route_points[index][2]
           lockers == get_nearby_parcel_lockers(response)
       IN  /\ log' = Append(log, Request(lat, lon, SEARCH_RADIUS_KM, token, response))
           /\ IF lockers.type = "dict"
              THEN /\ all_lockers' = all_lockers \o lockers.items
                   /\ pc' = "sleep"
                   /\ UNCHANGED exception
              ELSE /\ exception' = "AttributeError"
                   /\ pc' = "raised"
                   /\ UNCHANGED all_lockers
    /\ UNCHANGED <<all_points, samplerVars, token, route_points, index, seen,
                   unique_lockers, distance_markers, map_obj, saved>>

Sleep ==
    /\ pc = "sleep"
    /\ log' = Append(log, Delay)
    /\ index' = index + 1
    /\ pc' = "fetch"
    /\ UNCHANGED <<all_points, samplerVars, token, route_points, all_lockers, seen,
                   unique_lockers, distance_markers, map_obj, saved, exception>>

Dedup ==
    /\ pc = "fetch"
    /\ FetchLoopDone
    /\ LET st == DedupLoop(all_lockers, Len(all_lockers))
       IN  /\ seen' = st.seen
           /\ unique_lockers' = st.unique_lockers
    /\ pc' = "markers"
    /\ UNCHANGED <<all_points, samplerVars, token, route_points, index, all_lockers,
                   distance_markers, map_obj, saved, exception, log>>

GenerateMarkers ==
    /\ pc = "markers"
    /\ distance_markers'
          = get_distance_markers(all_points, DISTANCE_MARKERS_EACH * UnitsPerKm)
    /\ pc' = "render"
    /\ UNCHANGED <<all_points, samplerVars, token, route_points, index, all_lockers,
                   seen, unique_lockers, map_obj, saved, exception, log>>

CreateMap ==
    /\ pc = "render"
    /\ IF route_points = <<>>
       THEN /\ exception' = "IndexError"
            /\ pc' = "raised"
            /\ UNCHANGED map_obj
       ELSE /\ map_obj' = create_map_with_lockers(route_points, unique_lockers,
                                                   distance_markers)
            /\ pc' = "save"
            /\ UNCHANGED exception
    /\ UNCHANGED <<all_points, samplerVars, token, route_points, index, all_lockers,
                   seen, unique_lockers, distance_markers, saved, log>>

Save ==
    /\ pc = "save"
    /\ saved' = map_obj
    /\ pc' = "done"
    /\ UNCHANGED <<all_points, samplerVars, token, route_points, index, all_lockers,
                   seen, unique_lockers, distance_markers, map_obj, exception, log>>

Next ==
    \/ LoadToken
    \/ ParseRoute
    \/ \E response \in Responses : Fetch(response)
    \/ Sleep
    \/ Dedup
    \/ GenerateMarkers
    \/ CreateMap
    \/ Save

Spec == Init /\ [][Next]_vars

\* ======================================================================
\* Properties of the sampling functions (checked under SamplerSpec)
\* ======================================================================

\* trail distance from the point of index a to the point of index b >= a,
\* summed over the segments between consecutive raw points
RECURSIVE AlongTrack(_, _, _)
AlongTrack(points, a, b) ==
    IF b <= a THEN 0
    ELSE AlongTrack(points, a, b - 1) + geodesic(points[b - 1], points[b])

StrictlyIncreasing(s) == \A j \in 2..Len(s) : s[j - 1] < s[j]

CoarseReturned == spc \in {"call_marker", "marker_loop", "done"}
MarkerRunning == spc \in {"marker_loop", "done"}

\* C4: for a track with at least one raw point the coarse sample is non-empty,
\* starts with the first raw point and is an order-preserving subsequence of
\* the raw points, so the trail distance never decreases along it.
C4_CoarseKeepsFirstPoint ==
    all_points # <<>> =>
        /\ spc = "coarse_loop" =>
              /\ coarse.sampled_points # <<>>
              /\ coarse.sampled_points[1] = 1
        /\ CoarseReturned =>
              /\ coarse_result # <<>>
              /\ coarse_result[1] = all_points[1]
              /\ Len(coarse_result) = Len(coarse.sampled_points)
              /\ StrictlyIncreasing(coarse.sampled_points)
              /\ \A j \in 1..Len(coarse_result) :
                    /\ coarse.sampled_points[j] \in 1..Len(all_points)
                    /\ coarse_result[j] = all_points[coarse.sampled_points[j]]
              /\ \A j \in 2..Len(coarse_result) :
                    AlongTrack(all_points, 1, coarse.sampled_points[j - 1])
                        <= AlongTrack(all_points, 1, coarse.sampled_points[j])
              /\ coarse_result = parse_gpx_points_every_n_km(all_points, interval_km)

C4_Witness ==
    /\ spc = "done"
    /\ Len(all_points) = MaxTrackLen
    /\ Len(coarse_result) = 2
    /\ coarse_result[2] # all_points[2]
    /\ interval_km > 0

\* C5 as claimed: for every track and every interval each marker's distance
\* field is greater than that of the marker before it.
C5_MarkersStrictlyIncreasing ==
    \A j \in 2..Len(mark.markers) : mark.markers[j][3] > mark.markers[j - 1][3]

\* C5 as amended: the distance field never decreases along the list, and it
\* increases from each marker to the next when the interval exceeds half a km.
C5_MarkersIncreasingAboveHalfKm ==
    /\ \A j \in 2..Len(mark.markers) : mark.markers[j][3] >= mark.markers[j - 1][3]
    /\ 2 * interval_km > UnitsPerKm => C5_MarkersStrictlyIncreasing
    /\ spc = "done" => marker_result = get_distance_markers(all_points, interval_km)

C5_Witness ==
    /\ spc = "done"
    /\ 2 * interval_km > UnitsPerKm
    /\ Len(marker_result) >= 3
    /\ mark.total_distance % UnitsPerKm # 0

\* C6: when every two consecutive raw points are at least the interval apart,
\* the coarse sample is the whole track, in order.
C6_FarApartPointsAllSampled ==
    (/\ CoarseReturned
     /\ \A k \in 2..Len(all_points) :
            geodesic(all_points[k - 1], all_points[k]) >= interval_km)
        => coarse_result = all_points

C6_Witness ==
    /\ spc = "done"
    /\ Len(all_points) = 3
    /\ interval_km > 0
    /\ \A k \in 2..3 : geodesic(all_points[k - 1], all_points[k]) >= interval_km
    /\ geodesic(all_points[2], all_points[3]) = interval_km
    /\ Len(coarse_result) = 3

\* the last point accepted before the point of index k
PrevAccepted(accepted, k) ==
    CHOOSE a \in accepted : a < k /\ \A b \in accepted : b < k => b <= a

\* C8 as claimed: the accumulator holds the trail distance (summed over the
\* consecutive raw points) since the last accepted point, and a raw point is
\* accepted exactly when that trail distance is >= the interval.
C8_AccumulatorIsAlongTrack ==
    spc = "coarse_loop" =>
        /\ coarse.distance_accumulator
              = AlongTrack(all_points, coarse.last_added, cursor - 1)
        /\ \A k \in 2..(cursor - 1) :
              (k \in Range(coarse.sampled_points))
                  <=> (AlongTrack(all_points,
                                  PrevAccepted(Range(coarse.sampled_points), k), k)
                          >= interval_km)

\* the loop of get_distance_markers records the point of index k
MarkerAcceptedAt(k) ==
    Len(MarkerLoop(all_points, interval_km, k).markers)
        > Len(MarkerLoop(all_points, interval_km, k - 1).markers)

\* the point of the last marker recorded before index k, the start of the
\* track when there is none
PrevMarkerIndex(k) ==
    LET before == {a \in 2..(k - 1) : MarkerAcceptedAt(a)}
    IN  IF before = {} THEN 1 ELSE PrevAccepted(before, k)

\* C9 as claimed: a point is recorded as a marker only when its total
\* distance exceeds that of the previous marker (the start of the track for
\* the first marker) by at least the interval.
C9_MarkerSpacing ==
    MarkerRunning =>
        \A k \in 2..(cursor - 1) :
            MarkerAcceptedAt(k) =>
                AlongTrack(all_points, 1, k)
                    - AlongTrack(all_points, 1, PrevMarkerIndex(k)) >= interval_km

\* ======================================================================
\* Properties of a run of main (checked under Spec)
\* ======================================================================

Names(lockers) == {lockers[k].name : k \in 1..Len(lockers)}

IsGet(e) == e.ev = "GET"
Requests == SelectSeq(log, IsGet)
FailedRequests ==
    {k \in 1..Len(Requests) : Requests[k].raised \/ Requests[k].status_code # 200}

\* the names of the records the requests of the run returned
FetchedNames ==
    UNION {Names(Requests[k].returned) : k \in 1..Len(Requests)}

AfterFetch == pc \in {"markers", "render", "save", "done"}

\* C1 as claimed: a request that ends in a non-200 status or in a transport
\* failure does not make the run raise; the run goes on to the later points,
\* to dedup and to saving the map.
C1_FailedRequestDoesNotRaise ==
    FailedRequests # {} => (exception = "none" /\ pc # "raised")

\* C2 as claimed: for a track file with no points both sampling functions
\* return the empty sequence and the run completes without raising in
\* create_map_with_lockers.
C2_EmptyTrackRunCompletes ==
    all_points = <<>> =>
        /\ parse_gpx_points_every_n_km(all_points, TRAIL_CHUNK * UnitsPerKm) = <<>>
        /\ get_distance_markers(all_points, DISTANCE_MARKERS_EACH * UnitsPerKm) = <<>>
        /\ exception = "none"
        /\ pc # "raised"

\* the place in the list of the first record of that name
FirstIndex(lockers, name) ==
    CHOOSE k \in 1..Len(lockers) :
        /\ lockers[k].name = name
        /\ \A j \in 1..(k - 1) : lockers[j].name # name

\* C3: the dedup loop outputs, for each name fetched, exactly one record, the
\* first of that name in fetch order; the output is in arrival order and
\* holds no record that was not fetched.
C3_DedupKeepsFirstOccurrence ==
    AfterFetch =>
        /\ \A name \in Names(all_lockers) :
              /\ Cardinality({j \in 1..Len(unique_lockers) :
                                 unique_lockers[j].name = name}) = 1
              /\ \E j \in 1..Len(unique_lockers) :
                    unique_lockers[j] = all_lockers[FirstIndex(all_lockers, name)]
        /\ \A j \in 1..Len(unique_lockers) :
              unique_lockers[j].name \in Names(all_lockers)
        /\ \A j \in 2..Len(unique_lockers) :
              FirstIndex(all_lockers, unique_lockers[j - 1].name)
                  < FirstIndex(all_lockers, unique_lockers[j].name)
        /\ seen = Names(all_lockers)

C3_Witness ==
    /\ pc = "done"
    /\ Len(all_lockers) = 3
    /\ Len(unique_lockers) = 2
    /\ all_lockers[1].name = all_lockers[3].name
    /\ all_lockers[1].location # all_lockers[3].location

\* C7: when the run completes the map holds exactly one pin per distinct
\* name fetched and exactly one label per distance marker, each showing the
\* marker's integer kilometre count.
C7_OnePinPerNameOneLabelPerMarker ==
    pc = "done" =>
        /\ saved = map_obj
        /\ Len(saved.pins) = Cardinality(FetchedNames)
        /\ \A name \in FetchedNames :
              Cardinality({j \in 1..Len(saved.pins) : saved.pins[j].popup[1] = name}) = 1
        /\ Len(saved.labels)
              = Len(get_distance_markers(all_points, DISTANCE_MARKERS_EACH * UnitsPerKm))
        /\ \A j \in 1..Len(saved.labels) :
              LET m == get_distance_markers(all_points,
                                            DISTANCE_MARKERS_EACH * UnitsPerKm)[j]
              IN  /\ saved.labels[j].location = <<m[1], m[2]>>
                  /\ saved.labels[j].km = m[3]

C7_Witness ==
    /\ pc = "done"
    /\ Len(all_lockers) > Len(saved.pins)
    /\ Len(saved.pins) = 2
    /\ Len(saved.labels) = 2

\* C10: one request per coarse point, in route order, each followed by the
\* delay before the next; the loop ends after the last coarse point, and
\* dedup and rendering start only after the last request has returned.
C10_SequentialFetch ==
    /\ Len(Requests) <= Len(route_points)
    /\ \A k \in 1..Len(Requests) : Requests[k].relative_point = route_points[k]
    /\ \A j \in 1..(Len(log) - 1) : IsGet(log[j]) => log[j + 1] = Delay
    /\ AfterFetch => Len(Requests) = Len(route_points)
    /\ (seen # {} \/ unique_lockers # <<>> \/ map_obj # NoMap) => AfterFetch

C10_Witness ==
    /\ pc = "done"
    /\ Len(Requests) = 3
    /\ Requests[1].relative_point # Requests[2].relative_point
    /\ FailedRequests = {}

====
